---- MODULE Spec2Model ----
(***************************************************************************)
(* git-stats (src/src/main.rs): enumeration of an organization's           *)
(* repositories, one pull-request fetch task per repository behind a       *)
(* semaphore of 5 permits, sequential reduction of the joined results      *)
(* into a login -> UserStats map, and scoring.                             *)
(*                                                                         *)
(* Option<T> is modelled as a sequence: <<>> is None, <<x>> is Some(x).    *)
(* Result<T> is a record [ok |-> TRUE, val |-> x] or [ok |-> FALSE].       *)
(* A cursor is the number of the page it ends; 0 is the "null" cursor.     *)
(* u64 arithmetic is modelled on the naturals: the values of the model     *)
(* stay far below 2^64.                                                    *)
(***************************************************************************)
EXTENDS Integers, Sequences, FiniteSets, TLC

VARIABLES
    repos,          \* Args.repos : Option<Vec<String>>
    date,           \* Args.date : Option<NaiveDate>
    org,            \* the remote's answers to the organization listing, page by page
    remote,         \* the remote's answers for each repository, page by page
    mainpc,         \* where main is: start, enum, spawn, join, done, failed, panicked
    orgreqs,        \* listing requests sent to the remote
    listing,        \* main: Option<OrganizationResponse>, the inner `repositories`
    repositories,   \* main: Vec<String>, the outer `repositories`
    i,              \* main: enumerate() index of the spawn loop
    pauses,         \* the indexes at which the spawn loop slept
    permits,        \* the semaphore's available permits
    tpc,            \* per task: waiting, fetching, done, failed, aborted
    reqs,           \* per task: page requests sent to the remote
    stats,          \* per task: Option<RepositoryResponse>, the task's `stats`
    joined,         \* per task: join_next has yielded it
    user_stats,     \* GitHubUsers: login -> UserStats
    loc,            \* main: loc
    prs,            \* main: prs
    scale,          \* main: Option<u64>, `scale`
    scored          \* main: Option<ScoredUser>

vars == <<repos, date, org, remote, mainpc, orgreqs, listing, repositories, i, pauses, permits,
          tpc, reqs, stats, joined, user_stats, loc, prs, scale, scored>>

-----------------------------------------------------------------------------
(* Bounds of the model and constants of the program *)

Permits == 5            \* Semaphore::new(5)
SleepEvery == 10        \* i % 10 == 0
MaxPages == 2           \* longest page script of a repository
MaxOrgPages == 2        \* longest page script of the organization listing
SchedRepos == 6         \* repositories of the scheduling specification
TicksPerDay == 2        \* merged_at instants per calendar day
PauseRepos == 11        \* repositories of the pacing specification

None == <<>>
Some(x) == <<x>>
IsSome(o) == Len(o) = 1
Unwrap(o) == o[1]

Ok(x) == [ok |-> TRUE, val |-> x]
Err == [ok |-> FALSE]

RECURSIVE Concat(_)
Concat(ss) == IF ss = <<>> THEN <<>> ELSE Head(ss) \o Concat(Tail(ss))

SeqsUpTo(S, n) == UNION {[1..m -> S] : m \in 1..n}

-----------------------------------------------------------------------------
(* Deserialization *)

\* User::default()
User_default == "Unknown"

\* default_on_null: a JSON null becomes T::default()
default_on_null(j) == IF j = None THEN User_default ELSE Unwrap(j)

DecodeReview(j) == [author |-> default_on_null(j.author), state |-> j.state]
DecodeComment(j) == [author |-> default_on_null(j.author)]

\* serde's derive for PullRequest: author through default_on_null
DecodePullRequest(j) ==
    [merged_at |-> j.mergedAt,
     additions |-> j.additions,
     deletions |-> j.deletions,
     changed_files |-> j.changedFiles,
     author |-> default_on_null(j.author),
     reviews |-> [n \in DOMAIN j.reviews |-> DecodeReview(j.reviews[n])],
     comments |-> [n \in DOMAIN j.comments |-> DecodeComment(j.comments[n])]]

\* DateTime<Utc>::date_naive: the calendar day of an instant
date_naive(t) == t \div TicksPerDay

-----------------------------------------------------------------------------
(* RepositoryResponse *)

\* RepositoryResponse::empty
empty == [nodes |-> <<>>, page_info |-> [end_cursor |-> 0, has_next_page |-> FALSE]]

\* variant: the window test admits the cutoff day itself
has_next_page_Ge(self, max_date) ==
    LET in_window ==
            IF IsSome(max_date)
            THEN IF self.nodes # <<>>
                 THEN date_naive(self.nodes[Len(self.nodes)].merged_at) >= Unwrap(max_date)
                 ELSE TRUE
            ELSE TRUE
    IN  in_window /\ self.page_info.has_next_page

\* variant: the window test is reversed
has_next_page_Lt(self, max_date) ==
    LET in_window ==
            IF IsSome(max_date)
            THEN IF self.nodes # <<>>
                 THEN date_naive(self.nodes[Len(self.nodes)].merged_at) < Unwrap(max_date)
                 ELSE TRUE
            ELSE TRUE
    IN  in_window /\ self.page_info.has_next_page

\* RepositoryResponse::has_next_page
has_next_page(self, max_date) ==
    LET in_window ==
            IF IsSome(max_date)
            THEN IF self.nodes # <<>>
                 THEN date_naive(self.nodes[Len(self.nodes)].merged_at) > Unwrap(max_date)
                 ELSE TRUE
            ELSE TRUE
    IN  in_window /\ self.page_info.has_next_page

\* RepositoryResponse::next_cursor
next_cursor(self) == self.page_info.end_cursor

\* variant: the new page replaces the accumulated items
extend_Replace(self, other) ==
    [nodes |-> other.nodes, page_info |-> other.page_info]

\* variant: the accumulated response keeps its own page_info
extend_KeepPageInfo(self, other) ==
    [nodes |-> self.nodes \o other.nodes, page_info |-> self.page_info]

\* RepositoryResponse::extend
extend(self, other) ==
    [nodes |-> self.nodes \o other.nodes, page_info |-> other.page_info]

\* variant: retain keeps the cutoff day itself
trim_Ge(self, max_date) ==
    IF IsSome(max_date)
    THEN LET keep(pr) == date_naive(pr.merged_at) >= Unwrap(max_date)
         IN  [self EXCEPT !.nodes = SelectSeq(self.nodes, keep)]
    ELSE self

\* variant: only the first item on or before the cutoff is removed
trim_RemoveFirst(self, max_date) ==
    IF IsSome(max_date)
    THEN LET old == {n \in DOMAIN self.nodes :
                        ~(date_naive(self.nodes[n].merged_at) > Unwrap(max_date))}
         IN  IF old = {} THEN self
             ELSE LET f == CHOOSE n \in old : \A m \in old : n <= m
                  IN  [self EXCEPT !.nodes =
                        SubSeq(self.nodes, 1, f - 1) \o SubSeq(self.nodes, f + 1, Len(self.nodes))]
    ELSE self

\* RepositoryResponse::trim
trim(self, max_date) ==
    IF IsSome(max_date)
    THEN LET keep(pr) == date_naive(pr.merged_at) > Unwrap(max_date)
         IN  [self EXCEPT !.nodes = SelectSeq(self.nodes, keep)]
    ELSE self

-----------------------------------------------------------------------------
(* OrganizationResponse *)

\* OrganizationResponse::has_next_page
Org_has_next_page(self) == self.page_info.has_next_page

\* OrganizationResponse::next_cursor
Org_next_cursor(self) == self.page_info.end_cursor

\* OrganizationResponse::repositories
Org_repositories(self) == [n \in DOMAIN self.edges |-> self.edges[n].node.name]

\* OrganizationResponse::extend
Org_extend(self, other) ==
    [edges |-> self.edges \o other.edges, page_info |-> other.page_info]

-----------------------------------------------------------------------------
(* Requests *)

\* The remote: the answer to a request after cursor `after` is page after + 1
\* of the script; it reports a next page while the script has one.
Serve(script, after) ==
    LET n == after + 1
    IN  [kind |-> script[n].kind,
         items |-> script[n].items,
         pageInfo |-> [endCursor |-> n, hasNextPage |-> n < Len(script)]]

\* make_request: Err on a transport failure, else the response text
make_request(script, after) ==
    LET raw == Serve(script, after)
    IN  IF raw.kind = "neterr" THEN Err ELSE Ok(raw)

DecodePageInfo(j) == [end_cursor |-> j.endCursor, has_next_page |-> j.hasNextPage]

\* serde_json::from_str::<RepositoryResponse> of a response text
from_str_RepositoryResponse(raw) ==
    IF raw.kind = "ok"
    THEN Ok([nodes |-> [n \in DOMAIN raw.items |-> DecodePullRequest(raw.items[n])],
             page_info |-> DecodePageInfo(raw.pageInfo)])
    ELSE Err

DecodeEdge(name) == [node |-> [name |-> name]]

\* serde_json::from_str::<OrganizationResponse> of a response text
from_str_OrganizationResponse(raw) ==
    IF raw.kind = "ok"
    THEN Ok([edges |-> [n \in DOMAIN raw.items |-> DecodeEdge(raw.items[n])],
             page_info |-> DecodePageInfo(raw.pageInfo)])
    ELSE Err

\* variant: a listing page that does not decode becomes an empty last page
get_repositories_Lenient(script, after) ==
    LET raw_resp == make_request(script, after)
    IN  IF ~raw_resp.ok THEN Err
        ELSE LET r == from_str_OrganizationResponse(raw_resp.val)
             IN  IF r.ok THEN r
                 ELSE Ok([edges |-> <<>>,
                          page_info |-> [end_cursor |-> 0, has_next_page |-> FALSE]])

\* get_repositories
get_repositories(script, after) ==
    LET raw_resp == make_request(script, after)
    IN  IF ~raw_resp.ok THEN Err
        ELSE from_str_OrganizationResponse(raw_resp.val)

\* variant: a transport failure becomes an empty last page
get_stats_Lenient(script, after) ==
    LET raw_resp == make_request(script, after)
    IN  IF ~raw_resp.ok THEN Ok(empty)
        ELSE LET r == from_str_RepositoryResponse(raw_resp.val)
             IN  IF r.ok THEN r ELSE Ok(empty)

\* get_stats
get_stats(script, after) ==
    LET raw_resp == make_request(script, after)
    IN  IF ~raw_resp.ok THEN Err
        ELSE LET r == from_str_RepositoryResponse(raw_resp.val)
             IN  IF r.ok THEN r ELSE Ok(empty)

-----------------------------------------------------------------------------
(* Reduction: the body of the join loop *)

\* UserStats::new
UserStats_new ==
    [approvals |-> 0, requested_changes |-> 0, comments |-> 0, pull_requests |-> 0,
     additions |-> 0, deletions |-> 0, changed_files |-> 0, score |-> 0]

\* variant: the entry is replaced by a new one even when the login is present
or_insert_Fresh(us, login) ==
    [x \in DOMAIN us \cup {login} |-> IF x = login THEN UserStats_new ELSE us[x]]

\* HashMap::entry(login).or_insert(UserStats::new())
or_insert(us, login) == IF login \in DOMAIN us THEN us ELSE us @@ (login :> UserStats_new)

\* variant: every other disposition is counted as a comment
ReduceReview_ElseComment(us, review) ==
    LET m == or_insert(us, review.author)
    IN  IF review.state = "APPROVED"
        THEN [m EXCEPT ![review.author].approvals = @ + 1]
        ELSE IF review.state = "CHANGES_REQUESTED"
        THEN [m EXCEPT ![review.author].requested_changes = @ + 1]
        ELSE [m EXCEPT ![review.author].comments = @ + 1]

\* one iteration of `for review in pr.reviews.nodes`
ReduceReview(us, review) ==
    LET m == or_insert(us, review.author)
    IN  IF review.state = "APPROVED"
        THEN [m EXCEPT ![review.author].approvals = @ + 1]
        ELSE IF review.state = "COMMENTED"
        THEN [m EXCEPT ![review.author].comments = @ + 1]
        ELSE IF review.state = "CHANGES_REQUESTED"
        THEN [m EXCEPT ![review.author].requested_changes = @ + 1]
        ELSE m

\* one iteration of `for comment in pr.comments.nodes`
ReduceComment(us, comment) ==
    LET m == or_insert(us, comment.author)
    IN  [m EXCEPT ![comment.author].comments = @ + 1]

RECURSIVE ReduceReviews(_, _)
ReduceReviews(us, reviews) ==
    IF reviews = <<>> THEN us
    ELSE ReduceReviews(ReduceReview(us, Head(reviews)), Tail(reviews))

RECURSIVE ReduceComments(_, _)
ReduceComments(us, comments) ==
    IF comments = <<>> THEN us
    ELSE ReduceComments(ReduceComment(us, Head(comments)), Tail(comments))

\* variant: the author's deletions are not accumulated
ReduceAuthor_DropDeletions(agg, pr) ==
    LET m == or_insert(agg.user_stats, pr.author)
    IN  [user_stats |-> [m EXCEPT ![pr.author].additions = @ + pr.additions,
                                  ![pr.author].changed_files = @ + pr.changed_files,
                                  ![pr.author].pull_requests = @ + 1],
         prs |-> agg.prs + 1,
         loc |-> agg.loc + pr.additions + pr.deletions]

\* variant: the author's counters are assigned from the pull request, not added
ReduceAuthor_Overwrite(agg, pr) ==
    LET m == or_insert(agg.user_stats, pr.author)
    IN  [user_stats |-> [m EXCEPT ![pr.author].additions = pr.additions,
                                  ![pr.author].deletions = pr.deletions,
                                  ![pr.author].changed_files = pr.changed_files,
                                  ![pr.author].pull_requests = @ + 1],
         prs |-> agg.prs + 1,
         loc |-> agg.loc + pr.additions + pr.deletions]

\* the author's part of one iteration of `for pr in ...nodes`
ReduceAuthor(agg, pr) ==
    LET m == or_insert(agg.user_stats, pr.author)
    IN  [user_stats |-> [m EXCEPT ![pr.author].additions = @ + pr.additions,
                                  ![pr.author].deletions = @ + pr.deletions,
                                  ![pr.author].changed_files = @ + pr.changed_files,
                                  ![pr.author].pull_requests = @ + 1],
         prs |-> agg.prs + 1,
         loc |-> agg.loc + pr.additions + pr.deletions]

\* one iteration of `for pr in stats.data.repository.pull_requests.nodes`
ReducePullRequest(agg, pr) ==
    LET a == ReduceAuthor(agg, pr)
    IN  [a EXCEPT !.user_stats =
            ReduceComments(ReduceReviews(a.user_stats, pr.reviews), pr.comments)]

RECURSIVE ReduceNodes(_, _)
ReduceNodes(agg, nodes) ==
    IF nodes = <<>> THEN agg
    ELSE ReduceNodes(ReducePullRequest(agg, Head(nodes)), Tail(nodes))

-----------------------------------------------------------------------------
(* Scoring *)

\* variant: the division by 10 is applied after the product
score_DivAfter(st, weight) ==
    (st.approvals * weight) + (st.comments * weight)
        + (st.requested_changes * 2 * weight) + st.additions
        + ((st.deletions * weight) \div 10)

\* the score expression of GitHubUsers::finalize
score(st, weight) ==
    (st.approvals * weight) + (st.comments * weight)
        + (st.requested_changes * 2 * weight) + st.additions
        + (st.deletions * (weight \div 10))

\* the insertion of v[n] into the sorted prefix v[1..n-1], behind its equals:
\* slice::sort_by is stable, the comparator is b.score.cmp(a.score)
RECURSIVE InsertSorted(_, _)
InsertSorted(sorted, e) ==
    IF sorted = <<>> THEN <<e>>
    ELSE IF Head(sorted)[2].score < e[2].score
         THEN <<e>> \o sorted
         ELSE <<Head(sorted)>> \o InsertSorted(Tail(sorted), e)

\* variant: the vector is left in iteration order
sort_by_Unsorted(v) == v

RECURSIVE sort_by(_)
sort_by(v) ==
    IF v = <<>> THEN <<>>
    ELSE InsertSorted(sort_by(SubSeq(v, 1, Len(v) - 1)), v[Len(v)])

\* the orders in which HashMap::iter may visit the keys
IterOrders(us) ==
    {o \in [1..Cardinality(DOMAIN us) -> DOMAIN us] :
        \A a, b \in DOMAIN o : a # b => o[a] # o[b]}

\* GitHubUsers::finalize, for one iteration order of the map
finalize(us, weight, order) ==
    sort_by([n \in DOMAIN order |->
                <<order[n], [us[order[n]] EXCEPT !.score = score(us[order[n]], weight)]>>])

-----------------------------------------------------------------------------
(* The remote's data *)

Json(at, add, del, files, author, reviews, comments) ==
    [mergedAt |-> at, additions |-> add, deletions |-> del, changedFiles |-> files,
     author |-> author, reviews |-> reviews, comments |-> comments]

prA == Json(7, 10, 2, 1, Some("alice"),
            <<[author |-> Some("bob"), state |-> "APPROVED"]>>, <<>>)
prB == Json(3, 0, 0, 0, Some("alice"), <<>>, <<>>)
prC == Json(5, 25, 3, 2, None,
            <<[author |-> Some("alice"), state |-> "CHANGES_REQUESTED"],
              [author |-> None, state |-> "COMMENTED"],
              [author |-> Some("bob"), state |-> "DISMISSED"]>>,
            <<[author |-> Some("alice")], [author |-> None]>>)

Page(items) == [kind |-> "ok", items |-> items]
BadPage == [kind |-> "bad", items |-> <<>>]        \* a text that does not decode
NetErr == [kind |-> "neterr", items |-> <<>>]      \* the request fails in transport

RichPages ==
    {Page(<<prA>>), Page(<<prB>>), Page(<<prA, prB>>), Page(<<prC>>), Page(<<prB, prA>>),
     Page(<<>>), BadPage, NetErr}
SmallScripts == {<<Page(<<prB>>)>>, <<Page(<<prA, prC>>), Page(<<prB>>)>>, <<NetErr>>}
Dates == {None, Some(1), Some(2), Some(3)}

OrgDefault == <<Page(<<1>>), Page(<<2>>)>>
OrgPages == {Page(<<1>>), Page(<<2, 1>>), Page(<<>>), BadPage, NetErr}

SchedScript(n, fails) ==
    IF n = 2 /\ fails THEN <<NetErr>>
    ELSE IF n % 2 = 1 THEN <<Page(<<prB>>)>> ELSE <<Page(<<prA>>), Page(<<>>)>>
SchedOrg == <<Page([n \in 1..(SchedRepos - 1) |-> n]), Page(<<SchedRepos>>)>>

PauseScript(n) == IF n = 1 THEN <<Page(<<prB>>)>> ELSE <<NetErr>>
PauseOrg ==
    <<Page([n \in 1..SleepEvery |-> n]),
      Page([n \in 1..(PauseRepos - SleepEvery) |-> SleepEvery + n])>>

-----------------------------------------------------------------------------
(* The state after construction: main has parsed its arguments *)

InitMain ==
    /\ mainpc = "start"
    /\ orgreqs = 0
    /\ listing = None
    /\ repositories = <<>>
    /\ i = 0
    /\ pauses = <<>>
    /\ permits = Permits
    /\ tpc = <<>>
    /\ reqs = <<>>
    /\ stats = <<>>
    /\ joined = <<>>
    /\ user_stats = <<>>
    /\ loc = 0
    /\ prs = 0
    /\ scale = None
    /\ scored = None

\* two repositories, up to three tasks, every page script of the first repository
Init ==
    /\ InitMain
    /\ date \in Dates
    /\ repos \in {None, Some(<<1>>), Some(<<2, 1, 2>>)}
    /\ org = OrgDefault
    /\ \E s1 \in SeqsUpTo(RichPages, MaxPages), s2 \in SmallScripts :
            remote = (1 :> s1) @@ (2 :> s2)

\* many repositories, fixed page scripts
InitSched ==
    /\ InitMain
    /\ date \in {None, Some(2)}
    /\ repos \in {None, Some([n \in 1..SchedRepos |-> n])}
    /\ org = SchedOrg
    /\ \E fails \in BOOLEAN : remote = [n \in 1..SchedRepos |-> SchedScript(n, fails)]

\* every page script of the organization listing
InitEnum ==
    /\ InitMain
    /\ date = None
    /\ repos \in {None, Some(<<2>>)}
    /\ org \in SeqsUpTo(OrgPages, MaxOrgPages)
    /\ remote = (1 :> <<Page(<<prA>>)>>) @@ (2 :> <<Page(<<prB>>)>>)

\* more repositories than one pause period; all but the first fail at once
InitPause ==
    /\ InitMain
    /\ date = None
    /\ repos \in {None, Some(<<1>>)}
    /\ org = PauseOrg
    /\ remote = [n \in 1..PauseRepos |-> PauseScript(n)]

-----------------------------------------------------------------------------
(* main, up to the join loop *)

Tasks == DOMAIN tpc

\* where main goes with the list of repositories: the spawn loop, or past it
AfterList(list) == IF list = <<>> THEN "join" ELSE "spawn"

\* `match repos`
Start ==
    /\ mainpc = "start"
    /\ IF IsSome(repos)
       THEN /\ repositories' = Unwrap(repos)
            /\ mainpc' = AfterList(Unwrap(repos))
       ELSE /\ mainpc' = "enum"
            /\ UNCHANGED repositories
    /\ UNCHANGED <<repos, date, org, remote, orgreqs, listing, i, pauses, permits, tpc,
                   reqs, stats, joined, user_stats, loc, prs, scale, scored>>

\* one get_repositories(..).await? of the None arm, with what follows it up to
\* the next request
EnumPage ==
    /\ mainpc = "enum"
    /\ orgreqs' = orgreqs + 1
    /\ LET after == IF listing = None THEN 0 ELSE Org_next_cursor(Unwrap(listing))
           r == get_repositories(org, after)
       IN  IF ~r.ok
           THEN /\ mainpc' = "failed"
                /\ UNCHANGED <<listing, repositories>>
           ELSE LET acc == IF listing = None THEN r.val
                           ELSE Org_extend(Unwrap(listing), r.val)
                IN  /\ listing' = Some(acc)
                    /\ IF Org_has_next_page(acc)
                       THEN UNCHANGED <<mainpc, repositories>>
                       ELSE /\ repositories' = Org_repositories(acc)
                            /\ mainpc' = AfterList(Org_repositories(acc))
    /\ UNCHANGED <<repos, date, org, remote, i, pauses, permits, tpc,
                   reqs, stats, joined, user_stats, loc, prs, scale, scored>>

\* variant: the pause of the commented-out lines, every 5 tasks
SpawnTask_EveryFive ==
    /\ mainpc = "spawn"
    /\ i < Len(repositories)
    /\ pauses' = IF i % 5 = 0 /\ i # 0 THEN Append(pauses, i) ELSE pauses
    /\ tpc' = Append(tpc, "waiting")
    /\ reqs' = Append(reqs, 0)
    /\ stats' = Append(stats, None)
    /\ joined' = Append(joined, FALSE)
    /\ i' = i + 1
    /\ mainpc' = IF i + 1 = Len(repositories) THEN "join" ELSE "spawn"
    /\ UNCHANGED <<repos, date, org, remote, orgreqs, listing, repositories, permits,
                   user_stats, loc, prs, scale, scored>>

\* one iteration of the spawn loop
SpawnTask ==
    /\ mainpc = "spawn"
    /\ i < Len(repositories)
    /\ pauses' = IF i % SleepEvery = 0 /\ i # 0 THEN Append(pauses, i) ELSE pauses
    /\ tpc' = Append(tpc, "waiting")
    /\ reqs' = Append(reqs, 0)
    /\ stats' = Append(stats, None)
    /\ joined' = Append(joined, FALSE)
    /\ i' = i + 1
    /\ mainpc' = IF i + 1 = Len(repositories) THEN "join" ELSE "spawn"
    /\ UNCHANGED <<repos, date, org, remote, orgreqs, listing, repositories, permits,
                   user_stats, loc, prs, scale, scored>>

-----------------------------------------------------------------------------
(* The spawned task of repository number k *)

\* variant: a permit is handed out at zero
available_OneMore(p) == p >= 0

\* Semaphore: a permit can be handed out
available(p) == p > 0

\* semaphore.acquire().await
Acquire(k) ==
    /\ tpc[k] = "waiting"
    /\ available(permits)
    /\ permits' = permits - 1
    /\ tpc' = [tpc EXCEPT ![k] = "fetching"]
    /\ UNCHANGED <<repos, date, org, remote, mainpc, orgreqs, listing, repositories, i,
                   pauses, reqs, stats, joined, user_stats, loc, prs, scale, scored>>

\* variant: the permit is kept when the task ends
FetchPage_Leak(k) ==
    /\ tpc[k] = "fetching"
    /\ reqs' = [reqs EXCEPT ![k] = @ + 1]
    /\ LET after == IF stats[k] = None THEN 0 ELSE next_cursor(Unwrap(stats[k]))
           r == get_stats(remote[repositories[k]], after)
       IN  IF ~r.ok
           THEN /\ tpc' = [tpc EXCEPT ![k] = "failed"]
                /\ stats' = [stats EXCEPT ![k] = None]
           ELSE LET acc == IF stats[k] = None THEN r.val
                           ELSE extend(Unwrap(stats[k]), r.val)
                IN  IF has_next_page(acc, date)
                    THEN /\ stats' = [stats EXCEPT ![k] = Some(acc)]
                         /\ UNCHANGED tpc
                    ELSE /\ stats' = [stats EXCEPT ![k] = Some(trim(acc, date))]
                         /\ tpc' = [tpc EXCEPT ![k] = "done"]
    /\ UNCHANGED <<repos, date, org, remote, mainpc, orgreqs, listing, repositories, i,
                   pauses, permits, joined, user_stats, loc, prs, scale, scored>>

\* one get_stats(..).await? of the task, with what follows it up to the next
\* request or to the task's end; the permit is dropped when the task ends
FetchPage(k) ==
    /\ tpc[k] = "fetching"
    /\ reqs' = [reqs EXCEPT ![k] = @ + 1]
    /\ LET after == IF stats[k] = None THEN 0 ELSE next_cursor(Unwrap(stats[k]))
           r == get_stats(remote[repositories[k]], after)
       IN  IF ~r.ok
           THEN /\ tpc' = [tpc EXCEPT ![k] = "failed"]
                /\ stats' = [stats EXCEPT ![k] = None]
                /\ permits' = permits + 1
           ELSE LET acc == IF stats[k] = None THEN r.val
                           ELSE extend(Unwrap(stats[k]), r.val)
                IN  IF has_next_page(acc, date)
                    THEN /\ stats' = [stats EXCEPT ![k] = Some(acc)]
                         /\ UNCHANGED <<tpc, permits>>
                    ELSE /\ stats' = [stats EXCEPT ![k] = Some(trim(acc, date))]
                         /\ tpc' = [tpc EXCEPT ![k] = "done"]
                         /\ permits' = permits + 1
    /\ UNCHANGED <<repos, date, org, remote, mainpc, orgreqs, listing, repositories, i,
                   pauses, joined, user_stats, loc, prs, scale, scored>>

-----------------------------------------------------------------------------
(* main, from the join loop on *)

Running(k) == tpc[k] \in {"waiting", "fetching"}

\* main returns early: the JoinSet is dropped and aborts the tasks it still holds
Aborted(t) == [k \in DOMAIN t |-> IF t[k] \in {"waiting", "fetching"} THEN "aborted" ELSE t[k]]

\* variant: a failed task is skipped
JoinNext_SkipFailed(k) ==
    /\ mainpc = "join"
    /\ k \in Tasks
    /\ ~joined[k]
    /\ tpc[k] \in {"done", "failed"}
    /\ joined' = [joined EXCEPT ![k] = TRUE]
    /\ IF tpc[k] = "failed"
       THEN UNCHANGED <<mainpc, tpc, permits, user_stats, loc, prs>>
       ELSE LET agg == ReduceNodes([user_stats |-> user_stats, loc |-> loc, prs |-> prs],
                                   Unwrap(stats[k]).nodes)
            IN  /\ user_stats' = agg.user_stats
                /\ loc' = agg.loc
                /\ prs' = agg.prs
                /\ UNCHANGED <<mainpc, tpc, permits>>
    /\ UNCHANGED <<repos, date, org, remote, orgreqs, listing, repositories, i,
                   pauses, reqs, stats, scale, scored>>

\* variant: results are joined while the spawn loop still runs
JoinNext_Early(k) ==
    /\ mainpc \in {"spawn", "join"}
    /\ k \in Tasks
    /\ ~joined[k]
    /\ tpc[k] \in {"done", "failed"}
    /\ joined' = [joined EXCEPT ![k] = TRUE]
    /\ IF tpc[k] = "failed"
       THEN /\ mainpc' = "failed"
            /\ tpc' = Aborted(tpc)
            /\ permits' = permits + Cardinality({j \in Tasks : tpc[j] = "fetching"})
            /\ UNCHANGED <<user_stats, loc, prs>>
       ELSE LET agg == ReduceNodes([user_stats |-> user_stats, loc |-> loc, prs |-> prs],
                                   Unwrap(stats[k]).nodes)
            IN  /\ user_stats' = agg.user_stats
                /\ loc' = agg.loc
                /\ prs' = agg.prs
                /\ UNCHANGED <<mainpc, tpc, permits>>
    /\ UNCHANGED <<repos, date, org, remote, orgreqs, listing, repositories, i,
                   pauses, reqs, stats, scale, scored>>

\* one iteration of `while let Some(result) = join_handles.join_next().await`
JoinNext(k) ==
    /\ mainpc = "join"
    /\ k \in Tasks
    /\ ~joined[k]
    /\ tpc[k] \in {"done", "failed"}
    /\ joined' = [joined EXCEPT ![k] = TRUE]
    /\ IF tpc[k] = "failed"
       THEN /\ mainpc' = "failed"
            /\ tpc' = Aborted(tpc)
            /\ permits' = permits + Cardinality({j \in Tasks : tpc[j] = "fetching"})
            /\ UNCHANGED <<user_stats, loc, prs>>
       ELSE LET agg == ReduceNodes([user_stats |-> user_stats, loc |-> loc, prs |-> prs],
                                   Unwrap(stats[k]).nodes)
            IN  /\ user_stats' = agg.user_stats
                /\ loc' = agg.loc
                /\ prs' = agg.prs
                /\ UNCHANGED <<mainpc, tpc, permits>>
    /\ UNCHANGED <<repos, date, org, remote, orgreqs, listing, repositories, i,
                   pauses, reqs, stats, scale, scored>>

\* join_next() returns None; `loc / prs` panics on a zero divisor
Score ==
    /\ mainpc = "join"
    /\ \A k \in Tasks : joined[k]
    /\ IF prs = 0
       THEN /\ mainpc' = "panicked"
            /\ UNCHANGED <<scale, scored>>
       ELSE \E order \in IterOrders(user_stats) :
                /\ scale' = Some(loc \div prs)
                /\ scored' = Some(finalize(user_stats, loc \div prs, order))
                /\ mainpc' = "done"
    /\ UNCHANGED <<repos, date, org, remote, orgreqs, listing, repositories, i, pauses,
                   permits, tpc, reqs, stats, joined, user_stats, loc, prs>>

-----------------------------------------------------------------------------
Next ==
    \/ Start
    \/ EnumPage
    \/ SpawnTask
    \/ \E k \in Tasks : Acquire(k)
    \/ \E k \in Tasks : FetchPage(k)
    \/ \E k \in Tasks : JoinNext(k)
    \/ Score

Spec == Init /\ [][Next]_vars
SpecSched == InitSched /\ [][Next]_vars
SpecEnum == InitEnum /\ [][Next]_vars
SpecPause == InitPause /\ [][Next]_vars

\* the runtime keeps running what can run: a request that was sent returns, a
\* task that can take a permit takes it, main proceeds when a result is ready
SpecSchedFair == InitSched /\ [][Next]_vars /\ WF_vars(Next)

-----------------------------------------------------------------------------
(* What the remote served to task k, read from its script *)

ScriptOf(k) == remote[repositories[k]]

\* the items of page n as the task receives them: none from a page that fails
ServedNodes(k, n) ==
    IF ScriptOf(k)[n].kind = "ok"
    THEN [m \in DOMAIN ScriptOf(k)[n].items |-> DecodePullRequest(ScriptOf(k)[n].items[m])]
    ELSE <<>>

\* the items of pages 1..n, in page order
FetchedNodes(k, n) == Concat([m \in 1..n |-> ServedNodes(k, m)])

MergedAfter(pr, d) == date_naive(pr.merged_at) > d

RECURSIVE SumSeq(_)
SumSeq(q) == IF q = <<>> THEN 0 ELSE Head(q) + SumSeq(Tail(q))

RECURSIVE SumFun(_)
SumFun(f) ==
    IF DOMAIN f = {} THEN 0
    ELSE LET x == CHOOSE x \in DOMAIN f : TRUE
         IN  f[x] + SumFun([y \in DOMAIN f \ {x} |-> f[y]])

\* the pull requests of the results the join loop has reduced
ReducedPRs ==
    Concat([k \in 1..Len(tpc) |->
                IF joined[k] /\ tpc[k] = "done" THEN Unwrap(stats[k]).nodes ELSE <<>>])

Holders == {k \in Tasks : tpc[k] = "fetching"}

-----------------------------------------------------------------------------
(* C1: in every reachable state at most 5 tasks hold an admission permit,   *)
(* i.e. are between acquiring the permit and the end of their pagination    *)
(* and trim.                                                                *)
C1_AtMostFiveHolders == Cardinality(Holders) <= 5

\* five tasks fetch, the semaphore is empty and a sixth task waits
C1_Witness ==
    /\ Cardinality(Holders) = 5
    /\ permits = 0
    /\ \E k \in Tasks : tpc[k] = "waiting"

C3_OnlyAfterCutoff ==
    \A k \in Tasks : tpc[k] = "done" =>
        LET nodes == Unwrap(stats[k]).nodes
        IN  /\ IsSome(date) => \A n \in DOMAIN nodes : MergedAfter(nodes[n], Unwrap(date))
            /\ date = None => nodes = FetchedNodes(k, reqs[k])

\* a finished task whose trim removed some items and kept others
C3_Witness ==
    \E k \in Tasks :
        /\ tpc[k] = "done" /\ IsSome(date)
        /\ Unwrap(stats[k]).nodes # <<>>
        /\ Len(Unwrap(stats[k]).nodes) < Len(FetchedNodes(k, reqs[k]))

\* page n of task k reports more data, as the task sees it: a page that does
\* not decode is replaced by the empty page, which reports none
PageReportsMore(k, n) == ScriptOf(k)[n].kind = "ok" /\ n < Len(ScriptOf(k))

\* the last item of page n was merged on or before the cutoff
LastOnOrBefore(k, n) ==
    /\ IsSome(date)
    /\ ServedNodes(k, n) # <<>>
    /\ ~MergedAfter(ServedNodes(k, n)[Len(ServedNodes(k, n))], Unwrap(date))

KeepsFetching(k, n) == PageReportsMore(k, n) /\ ~LastOnOrBefore(k, n)

(* C4: a task requests a further page exactly while the most recently       *)
(* fetched page reports more data and its last item, if it has one and a    *)
(* cutoff is given, was merged strictly after the cutoff: a task that still *)
(* fetches has seen only such pages, and a task that finished has seen such *)
(* pages followed by one page that is not.                                  *)
C4_EarlyStop ==
    \A k \in Tasks :
        /\ tpc[k] = "fetching" => \A n \in 1..reqs[k] : KeepsFetching(k, n)
        /\ tpc[k] = "done" =>
                /\ reqs[k] >= 1
                /\ \A n \in 1..(reqs[k] - 1) : KeepsFetching(k, n)
                /\ ~KeepsFetching(k, reqs[k])
        /\ tpc[k] = "failed" => \A n \in 1..(reqs[k] - 1) : KeepsFetching(k, n)

\* a task stopped at a page that reports more data, on the date of its last item
C4_Witness ==
    \E k \in Tasks :
        /\ tpc[k] = "done"
        /\ PageReportsMore(k, reqs[k])
        /\ LastOnOrBefore(k, reqs[k])

\* the items that the cutoff keeps
Retained(nodes) ==
    IF IsSome(date)
    THEN LET keep(pr) == MergedAfter(pr, Unwrap(date)) IN SelectSeq(nodes, keep)
    ELSE nodes

(* C5: when the response for page n >= 2 does not decode, the task does not *)
(* fail: it ends successfully at that page with no next page, and its       *)
(* result is the items of pages 1..n-1 (those the cutoff keeps).            *)
C5_DecodeFailureKeepsPages ==
    \A k \in Tasks :
        (reqs[k] >= 2 /\ ScriptOf(k)[reqs[k]].kind = "bad") =>
            /\ tpc[k] = "done"
            /\ ~Unwrap(stats[k]).page_info.has_next_page
            /\ Unwrap(stats[k]).nodes = Retained(FetchedNodes(k, reqs[k] - 1))
            /\ date = None => Unwrap(stats[k]).nodes = FetchedNodes(k, reqs[k] - 1)

\* a later page failed to decode and the result still holds earlier items
C5_Witness ==
    \E k \in Tasks :
        /\ reqs[k] >= 2 /\ ScriptOf(k)[reqs[k]].kind = "bad"
        /\ date = None
        /\ Unwrap(stats[k]).nodes # <<>>

AllJoined == \A k \in Tasks : joined[k] /\ tpc[k] = "done"

(* C8: when the run aggregated zero pull requests, the weight computation   *)
(* ends in an error value of the run, not in a panic and not in a report.   *)
C8_DivisionByZeroIsAnError ==
    (prs = 0 /\ AllJoined /\ mainpc \notin {"start", "enum", "spawn", "join"}) =>
        mainpc = "failed"

-----------------------------------------------------------------------------
Scenario ==
    /\ repositories = <<1, 2>>
    /\ remote[1] = <<Page(<<prA>>)>>
    /\ remote[2] = <<Page(<<prB>>)>>
    /\ date = None

ScoreOf(login) ==
    LET v == Unwrap(scored)
        n == CHOOSE n \in DOMAIN v : v[n][1] = login
    IN  v[n][2].score

(* C9: finalize gives every contributor score = weight*approvals +          *)
(* weight*comments + 2*weight*requested_changes + additions +               *)
(* (weight div 10)*deletions, with weight = total_loc div                   *)
(* total_pull_requests; in the two-repository scenario the weight is 6,     *)
(* alice scores 10 and bob 6.                                               *)
C9_ScoreFormula ==
    mainpc = "done" =>
        LET w == loc \div prs
            v == Unwrap(scored)
        IN  /\ scale = Some(w)
            /\ {v[n][1] : n \in DOMAIN v} = DOMAIN user_stats
            /\ \A n \in DOMAIN v :
                LET st == user_stats[v[n][1]]
                IN  /\ v[n][2] = [st EXCEPT !.score = v[n][2].score]
                    /\ v[n][2].score =
                            w * st.approvals + w * st.comments
                            + 2 * w * st.requested_changes + st.additions
                            + (w \div 10) * st.deletions
            /\ Scenario =>
                /\ prs = 2 /\ loc = 12 /\ w = 6
                /\ ScoreOf("alice") = 10
                /\ ScoreOf("bob") = 6

\* the scenario was scored
C9_Witness == Scenario /\ mainpc = "done" /\ DOMAIN user_stats = {"alice", "bob"}

(* C10: after every reduced result, the additions and deletions of all      *)
(* contributors sum to the additions and deletions of the retained pull     *)
(* requests reduced so far and to total_loc, and the contributors'          *)
(* pull_requests sum to the pull-request counter.                           *)
C10_SumsAgree ==
    /\ SumFun([u \in DOMAIN user_stats |->
                    user_stats[u].additions + user_stats[u].deletions]) = loc
    /\ loc = SumSeq([n \in DOMAIN ReducedPRs |->
                    ReducedPRs[n].additions + ReducedPRs[n].deletions])
    /\ SumFun([u \in DOMAIN user_stats |-> user_stats[u].pull_requests]) = prs
    /\ prs = Len(ReducedPRs)

\* two results with deletions are reduced and a third is still to come
C10_Witness ==
    \E k, j, m \in Tasks :
        /\ k # j
        /\ joined[k] /\ joined[j] /\ ~joined[m]
        /\ Len(ReducedPRs) >= 3
        /\ \E u \in DOMAIN user_stats : user_stats[u].deletions > 0
        /\ mainpc = "join"


-----------------------------------------------------------------------------
(* The remote's own view of what has been reduced: the JSON items of the    *)
(* pages served to the joined tasks that the cutoff keeps.                  *)

JsonKept(j) == date = None \/ (j.mergedAt \div TicksPerDay) > Unwrap(date)

ServedJson(k) ==
    Concat([n \in 1..reqs[k] |->
                IF ScriptOf(k)[n].kind = "ok" THEN ScriptOf(k)[n].items ELSE <<>>])

ReducedJson ==
    Concat([k \in 1..Len(tpc) |->
                IF joined[k] /\ tpc[k] = "done" THEN SelectSeq(ServedJson(k), JsonKept)
                ELSE <<>>])

\* the login a JSON author stands for
LoginOf(a) == IF a = None THEN "Unknown" ELSE a[1]

\* how many entries of q are by login u (and, for reviews, in state st)
CountBy(q, u) == Cardinality({n \in DOMAIN q : LoginOf(q[n].author) = u})
CountReviews(q, u, st) ==
    Cardinality({n \in DOMAIN q : LoginOf(q[n].author) = u /\ q[n].state = st})

LoginsOf(j) ==
    {LoginOf(j.author)} \cup {LoginOf(j.reviews[n].author) : n \in DOMAIN j.reviews}
        \cup {LoginOf(j.comments[n].author) : n \in DOMAIN j.comments}

\* the counters of login u, summed over every role in the reduced items
RoleSums(u) ==
    LET q == ReducedJson
        own(n) == LoginOf(q[n].author) = u
    IN  [approvals |-> SumSeq([n \in DOMAIN q |-> CountReviews(q[n].reviews, u, "APPROVED")]),
         requested_changes |->
            SumSeq([n \in DOMAIN q |-> CountReviews(q[n].reviews, u, "CHANGES_REQUESTED")]),
         comments |->
            SumSeq([n \in DOMAIN q |-> CountReviews(q[n].reviews, u, "COMMENTED")
                                        + CountBy(q[n].comments, u)]),
         pull_requests |-> Cardinality({n \in DOMAIN q : own(n)}),
         additions |-> SumSeq([n \in DOMAIN q |-> IF own(n) THEN q[n].additions ELSE 0]),
         deletions |-> SumSeq([n \in DOMAIN q |-> IF own(n) THEN q[n].deletions ELSE 0]),
         changed_files |->
            SumSeq([n \in DOMAIN q |-> IF own(n) THEN q[n].changedFiles ELSE 0]),
         score |-> 0]

(* C11: the aggregate has exactly one entry for every login that appears in *)
(* any role of a reduced pull request, a missing author standing for the    *)
(* login "Unknown", and the entry's counters are the sums of the login's    *)
(* contributions as author, reviewer and commenter.                         *)
C11_OneEntryAllRoles ==
    /\ DOMAIN user_stats = UNION {LoginsOf(ReducedJson[n]) : n \in DOMAIN ReducedJson}
    /\ \A u \in DOMAIN user_stats : user_stats[u] = RoleSums(u)

\* alice is author of one pull request and reviewer and commenter of another,
\* whose author is missing and which a missing reviewer and commenter touched
C11_Witness ==
    /\ "alice" \in DOMAIN user_stats /\ "Unknown" \in DOMAIN user_stats
    /\ user_stats["alice"].pull_requests > 0
    /\ user_stats["alice"].requested_changes > 0
    /\ user_stats["alice"].comments > 0
    /\ user_stats["Unknown"].pull_requests > 0
    /\ user_stats["Unknown"].comments >= 2


-----------------------------------------------------------------------------
(* C12: the spawn loop pauses exactly once before submitting each task      *)
(* whose zero-based index is a positive multiple of 10, and at no other     *)
(* index: with i tasks submitted, the pauses made are those of the indexes  *)
(* 10, 20, .. below i, in order, whatever the submitted tasks are doing.    *)
C12_PauseEveryTen ==
    /\ i = Len(tpc)
    /\ pauses = [n \in 1..((i - 1) \div 10) |-> 10 * n]

\* the pause before task 10 was made while five tasks held the permits and
\* others waited
C12_Witness ==
    /\ pauses = <<10>>
    /\ i = 11
    /\ Cardinality(Holders) = 5
    /\ Cardinality({k \in Tasks : tpc[k] = "waiting"}) >= 5


-----------------------------------------------------------------------------
-----------------------------------------------------------------------------
(* C14: the sequence finalize returns holds every contributor of the        *)
(* aggregate exactly once and is ordered by score, non-increasing: each     *)
(* entry's score is greater than or equal to the next one's.                *)
C14_SortedByScore ==
    mainpc = "done" =>
        LET v == Unwrap(scored)
        IN  /\ Len(v) = Cardinality(DOMAIN user_stats)
            /\ {v[n][1] : n \in DOMAIN v} = DOMAIN user_stats
            /\ \A n \in 1..(Len(v) - 1) : v[n][2].score >= v[n + 1][2].score

\* three contributors were ranked, with different scores and with a tie
C14_Witness ==
    /\ mainpc = "done"
    /\ Len(Unwrap(scored)) = 3
    /\ Unwrap(scored)[1][2].score > Unwrap(scored)[2][2].score
    /\ Unwrap(scored)[2][2].score >= Unwrap(scored)[3][2].score


-----------------------------------------------------------------------------
\* the aggregate of the reduced results taken in index order, whatever the
\* order in which the join loop received them
InIndexOrder == ReduceNodes([user_stats |-> <<>>, loc |-> 0, prs |-> 0], ReducedPRs)

(* C15: the aggregate (every contributor's counters, total_loc and the      *)
(* pull-request count) depends only on which results were reduced, not on   *)
(* the order in which the tasks completed and were reduced: in every state  *)
(* it equals the reduction of the joined results in index order; hence the  *)
(* weight and every score of a finished run are determined by the results.  *)
C15_OrderIndependent ==
    /\ user_stats = InIndexOrder.user_stats
    /\ loc = InIndexOrder.loc
    /\ prs = InIndexOrder.prs
    /\ mainpc = "done" =>
            /\ scale = Some(InIndexOrder.loc \div InIndexOrder.prs)
            /\ \A n \in DOMAIN Unwrap(scored) :
                    LET st == InIndexOrder.user_stats[Unwrap(scored)[n][1]]
                    IN  Unwrap(scored)[n][2] =
                            [st EXCEPT !.score =
                                score(st, InIndexOrder.loc \div InIndexOrder.prs)]

\* a later task's result was reduced before an earlier task's, both non-empty
\* and with a common contributor
C15_Witness ==
    \E k, j \in Tasks :
        /\ k < j
        /\ tpc[k] = "done" /\ ~joined[k] /\ Unwrap(stats[k]).nodes # <<>>
        /\ tpc[j] = "done" /\ joined[j] /\ Unwrap(stats[j]).nodes # <<>>
        /\ \E a \in DOMAIN Unwrap(stats[k]).nodes, b \in DOMAIN Unwrap(stats[j]).nodes :
                Unwrap(stats[k]).nodes[a].author = Unwrap(stats[j]).nodes[b].author


-----------------------------------------------------------------------------
AllOk(k) == \A n \in DOMAIN ScriptOf(k) : ScriptOf(k)[n].kind = "ok"

\* the underlying item sequence of a repository, without its page boundaries
AllItems(k) == Concat([n \in DOMAIN ScriptOf(k) |-> ScriptOf(k)[n].items])

(* C16: within one repository the n-th request asks for the page after the  *)
(* end cursor of the page fetched last, so the pages arrive in cursor order *)
(* and the accumulated items are the concatenation of the fetched pages'    *)
(* items in that order; with no cutoff and no failing page the result is    *)
(* the underlying item sequence, however it is split into pages.            *)
C16_CursorOrderConcat ==
    \A k \in Tasks :
        /\ (tpc[k] = "fetching" /\ reqs[k] >= 1) =>
                /\ next_cursor(Unwrap(stats[k])) = reqs[k]
                /\ Unwrap(stats[k]).nodes = FetchedNodes(k, reqs[k])
        /\ (tpc[k] = "done" /\ date = None) =>
                Unwrap(stats[k]).nodes = FetchedNodes(k, reqs[k])
        /\ (tpc[k] = "done" /\ date = None /\ AllOk(k)) =>
                /\ reqs[k] = Len(ScriptOf(k))
                /\ Unwrap(stats[k]).nodes =
                        [m \in DOMAIN AllItems(k) |-> DecodePullRequest(AllItems(k)[m])]

\* a task merged two non-empty pages into one result, with no cutoff
C16_Witness ==
    \E k \in Tasks :
        /\ tpc[k] = "done" /\ date = None /\ AllOk(k)
        /\ reqs[k] = 2
        /\ ScriptOf(k)[1].items # <<>> /\ ScriptOf(k)[2].items # <<>>
        /\ Len(Unwrap(stats[k]).nodes) = Len(ScriptOf(k)[1].items) + Len(ScriptOf(k)[2].items)


-----------------------------------------------------------------------------
\* a is b with some items left out, the others in their order
RECURSIVE IsSubseq(_, _)
IsSubseq(a, b) ==
    IF a = <<>> THEN TRUE
    ELSE IF b = <<>> THEN FALSE
    ELSE IF Head(a) = Head(b) THEN IsSubseq(Tail(a), Tail(b))
    ELSE IsSubseq(a, Tail(b))

(* C17: for every list a task has accumulated or returned and the run's     *)
(* cutoff D, trimming the trimmed list again changes nothing, and the       *)
(* trimmed list is the items merged after D in their original relative      *)
(* order (the whole list when there is no cutoff).                          *)
C17_TrimIdempotent ==
    \A k \in Tasks : IsSome(stats[k]) =>
        LET L == Unwrap(stats[k])
            T == trim(L, date)
        IN  /\ trim(T, date) = T
            /\ IsSubseq(T.nodes, L.nodes)
            /\ Len(T.nodes) = Cardinality({n \in DOMAIN L.nodes :
                                    date = None \/ MergedAfter(L.nodes[n], Unwrap(date))})
            /\ T.page_info = L.page_info
            /\ tpc[k] = "done" => T = L

\* trim removed two items from the list of one task and kept some, and kept
\* two different items of the list of another task
C17_Witness ==
    \E k, j \in Tasks :
        /\ tpc[k] = "done" /\ tpc[j] = "done" /\ IsSome(date)
        /\ Unwrap(stats[k]).nodes # <<>>
        /\ Len(Unwrap(stats[k]).nodes) + 2 <= Len(FetchedNodes(k, reqs[k]))
        /\ Len(Unwrap(stats[j]).nodes) = 2
        /\ Len(Unwrap(stats[j]).nodes) < Len(FetchedNodes(j, reqs[j]))
        /\ Unwrap(stats[j]).nodes[1] # Unwrap(stats[j]).nodes[2]


-----------------------------------------------------------------------------
\* every review the remote serves for the repositories of the run, decoded
ItemsServed ==
    UNION {UNION {{ScriptOf(k)[n].items[m] : m \in DOMAIN ScriptOf(k)[n].items} :
                    n \in DOMAIN ScriptOf(k)} : k \in Tasks}

ReviewsServed ==
    UNION {{DecodeReview(j.reviews[x]) : x \in DOMAIN j.reviews} : j \in ItemsServed}

\* the entry of login u before a step, as the step finds or creates it
EntryOf(u) == IF u \in DOMAIN user_stats THEN user_stats[u] ELSE UserStats_new

\* how many reduced reviews login u gave with disposition st
ReviewsBy(u, st) ==
    SumSeq([n \in DOMAIN ReducedPRs |->
                Cardinality({x \in DOMAIN ReducedPRs[n].reviews :
                                /\ ReducedPRs[n].reviews[x].author = u
                                /\ ReducedPRs[n].reviews[x].state = st})])

CommentsBy(u) ==
    SumSeq([n \in DOMAIN ReducedPRs |->
                Cardinality({x \in DOMAIN ReducedPRs[n].comments :
                                ReducedPRs[n].comments[x].author = u})])

(* C18: reducing a review into any aggregate the run reaches touches only   *)
(* the reviewer's entry; with a disposition other than APPROVED, COMMENTED, *)
(* CHANGES_REQUESTED it leaves every counter as it was (creating the        *)
(* reviewer's entry with zeros if it was missing) and is no error of the    *)
(* run; with a recognized disposition it adds one to exactly that           *)
(* disposition's counter. So a contributor's three counters count the       *)
(* recognized reviews and the comments only.                                *)
C18_UnrecognizedReviewIsNoop ==
    /\ \A r \in ReviewsServed :
            LET m == ReduceReview(user_stats, r)
                e == EntryOf(r.author)
            IN  /\ DOMAIN m = DOMAIN user_stats \cup {r.author}
                /\ \A u \in DOMAIN user_stats \ {r.author} : m[u] = user_stats[u]
                /\ m[r.author] =
                        CASE r.state = "APPROVED" -> [e EXCEPT !.approvals = @ + 1]
                          [] r.state = "COMMENTED" -> [e EXCEPT !.comments = @ + 1]
                          [] r.state = "CHANGES_REQUESTED" ->
                                [e EXCEPT !.requested_changes = @ + 1]
                          [] OTHER -> e
    /\ \A u \in DOMAIN user_stats :
            /\ user_stats[u].approvals = ReviewsBy(u, "APPROVED")
            /\ user_stats[u].requested_changes = ReviewsBy(u, "CHANGES_REQUESTED")
            /\ user_stats[u].comments = ReviewsBy(u, "COMMENTED") + CommentsBy(u)
    /\ mainpc = "failed" =>
            \/ \E k \in Tasks : tpc[k] = "failed" /\ joined[k]
            \/ orgreqs >= 1 /\ org[orgreqs].kind # "ok"

\* a finished run reduced a DISMISSED review by bob and nothing else of bob:
\* bob's entry exists and every counter of it is zero
C18_Witness ==
    /\ mainpc = "done"
    /\ ReviewsBy("bob", "DISMISSED") >= 1
    /\ "bob" \in DOMAIN user_stats
    /\ user_stats["bob"] = UserStats_new
    /\ user_stats["alice"].requested_changes >= 1


-----------------------------------------------------------------------------
Ended(k) == tpc[k] \in {"done", "failed"}

MainEnded == mainpc \in {"done", "failed", "panicked"}

-----------------------------------------------------------------------------
\* the merge days do not increase along the repository's item sequence
NonIncreasing(k) ==
    \A m \in 1..(Len(AllItems(k)) - 1) :
        AllItems(k)[m].mergedAt \div TicksPerDay >= AllItems(k)[m + 1].mergedAt \div TicksPerDay

\* the complete sequence of the repository, decoded
CompleteNodes(k) == FetchedNodes(k, Len(ScriptOf(k)))

\* a later page than the last one fetched holds an item merged after the cutoff
LostAfterStop(k) ==
    \E n \in (reqs[k] + 1)..Len(ScriptOf(k)) : \E m \in DOMAIN ServedNodes(k, n) :
        MergedAfter(ServedNodes(k, n)[m], Unwrap(date))

(* C20: with a cutoff D, when no page fails and the merge days do not       *)
(* increase along the repository's sequence, the task's result is the trim  *)
(* of the complete sequence, whether or not it stopped early. In general    *)
(* the result is the trim of the pages up to the one it stopped at: what    *)
(* lies on later pages is not in it, merged after D or not.                 *)
C20_EarlyStopLosesNothingWhenOrdered ==
    \A k \in Tasks : (tpc[k] = "done" /\ IsSome(date)) =>
        /\ (AllOk(k) /\ NonIncreasing(k)) =>
                /\ Unwrap(stats[k]).nodes = Retained(CompleteNodes(k))
                /\ ~LostAfterStop(k)
        /\ Unwrap(stats[k]).nodes = Retained(FetchedNodes(k, reqs[k]))
        /\ LostAfterStop(k) =>
                Len(Unwrap(stats[k]).nodes) < Len(Retained(CompleteNodes(k)))

\* one task stopped early on an ordered sequence and returned the trim of all
\* of it; another stopped early on an unordered one and lost a later item
C20_Witness ==
    \E k, j \in Tasks :
        /\ IsSome(date)
        /\ tpc[k] = "done" /\ AllOk(k) /\ NonIncreasing(k)
        /\ reqs[k] < Len(ScriptOf(k))
        /\ Unwrap(stats[k]).nodes # <<>>
        /\ Len(Unwrap(stats[k]).nodes) < Len(CompleteNodes(k))
        /\ tpc[j] = "done" /\ AllOk(j) /\ ~NonIncreasing(j)
        /\ LostAfterStop(j)

====
